---------------------------- MODULE Spec2Model ----------------------------
(* Model of src/main.go: the scrape-and-push loop that queries one daily    *)
(* reward per configured account and pushes the gauges to a Pushgateway.    *)
(*                                                                          *)
(* Strings that the program inspects (the -account flag) are sequences of   *)
(* one-character strings; strings it only compares or tests for emptiness   *)
(* (-metrics) are TLA+ strings.        The -interval flag is a Go int       *)
(* (64 bits); it is kept as 8 little-endian base-256 limbs so that the      *)
(* product with time.Second wraps exactly as int64 multiplication does.     *)
EXTENDS Integers, Sequences, FiniteSets, TLC

VARIABLES
    pc,          \* position of main: parse, open, ping, ticker, idle, query, push, fatal, panic
    accountStr,  \* *accountStr  (main.go:17)
    interval,    \* *interval    (main.go:18)
    metricsName, \* *metricsName (main.go:21)
    dbErr,       \* which startup database call failed: "none", "open", "ping"
    accounts,    \* accounts     (main.go:31)
    idx,         \* position of the range loop over accounts (main.go:59)
    reg,         \* reg, the tick's registry (main.go:57): the set of registered gauges
    opLog,       \* external operations issued by the current tick, in order
    gateway,     \* metric group held by the gateway: the batch of the last successful push
    chanLen,     \* number of ticks buffered in ticker.C
    elapsed,     \* timer intervals elapsed since NewTicker
    dropped,     \* timer events discarded because ticker.C was full
    ticks,       \* receptions from ticker.C (main.go:55)
    pushes       \* calls of Push() (main.go:85)

vars == <<pc, accountStr, interval, metricsName, dbErr, accounts, idx,
          reg, opLog, gateway, chanLen, elapsed, dropped, ticks, pushes>>

-----------------------------------------------------------------------------
(* Bounds *)

MaxLen == 3          \* longest -account string explored
MaxElapsed == 2      \* timer intervals explored
MaxReward == 1       \* reward values explored: 0..MaxReward

-----------------------------------------------------------------------------
(* 64-bit integers *)

LimbBase == 256
NumLimbs == 8

\* the int64 with the small non-negative value n (n < 2^24)
Small64(n) ==
    [k \in 1..NumLimbs |->
        IF k = 1 THEN n % LimbBase
        ELSE IF k = 2 THEN (n \div LimbBase) % LimbBase
        ELSE IF k = 3 THEN (n \div (LimbBase * LimbBase)) % LimbBase
        ELSE 0]

\* time.Second = 1000000000 ns = 0x3B9ACA00
Second == <<0, 202, 154, 59, 0, 0, 0, 0>>

RECURSIVE ColSum(_, _, _, _)
\* sum of a[i+1]*b[k-i+1] for i in lo..k : column k of the schoolbook product
ColSum(a, b, k, lo) ==
    IF lo > k THEN 0
    ELSE a[lo + 1] * b[k - lo + 1] + ColSum(a, b, k, lo + 1)

RECURSIVE MulCarry(_, _, _, _)
MulCarry(a, b, k, carry) ==
    IF k = NumLimbs THEN <<>>
    ELSE LET t == ColSum(a, b, k, 0) + carry
         IN  <<t % LimbBase>> \o MulCarry(a, b, k + 1, t \div LimbBase)

\* int64 multiplication: the low 64 bits of the product
Mul64(a, b) == MulCarry(a, b, 0, 0)

IsNeg64(x) == x[NumLimbs] >= LimbBase \div 2
IsZero64(x) == \A k \in 1..NumLimbs : x[k] = 0
IsPos64(x) == ~IsNeg64(x) /\ ~IsZero64(x)

\* time.Duration(*interval) * time.Second
Duration(i) == Mul64(i, Second)

-----------------------------------------------------------------------------
(* Inputs *)

Alphabet == {"a", ","}

RECURSIVE StringsUpTo(_)
StringsUpTo(n) ==
    IF n = 0 THEN {<<>>}
    ELSE LET S == StringsUpTo(n - 1)
         IN  S \cup {s \o <<c>> : s \in {t \in S : Len(t) = n - 1}, c \in Alphabet}

AccountStrs == StringsUpTo(MaxLen)

\* 0, the default 30, -1, 9223372037 (the smallest interval whose duration
\* wraps to a negative value) and 18446744074 (one that wraps to a positive one)
Intervals ==
    { Small64(0), Small64(30),
      <<255, 255, 255, 255, 255, 255, 255, 255>>,
      <<5, 125, 193, 37, 2, 0, 0, 0>>,
      <<10, 250, 130, 75, 4, 0, 0, 0>> }

MetricNames == {"", "daily_reward"}

Rewards == 0..MaxReward

\* what queryDailyReward returns: (dailyReward, nil) or (0, err)
QueryOutcomes ==
    {[err |-> FALSE, val |-> v] : v \in Rewards} \cup {[err |-> TRUE, val |-> 0]}

-----------------------------------------------------------------------------
(* Pure functions *)

RECURSIVE Split(_)
\* strings.Split(s, ",")
Split(s) ==
    IF \A k \in 1..Len(s) : s[k] /= ","
    THEN <<s>>
    ELSE LET k == CHOOSE j \in 1..Len(s) :
                      s[j] = "," /\ \A m \in 1..(j - 1) : s[m] /= ","
         IN  <<SubSeq(s, 1, k - 1)>> \o Split(SubSeq(s, k + 1, Len(s)))

\* the empty name is no valid metric name; the other names used here are valid
IsValidMetricName(n) == n /= ""

GaugeSet_Shifted(v) == v + 1

\* gauge.Set(dailyReward): the gauge holds the float64 it is given
GaugeSet(v) == v

\* prometheus.NewGauge(GaugeOpts{Name: *metricsName, ConstLabels: {"account": acc}}) and Set
NewGauge(name, acc, v) == [name |-> name, account |-> acc, value |-> GaugeSet(v)]

\* the descriptor of a gauge carries an error when its name is invalid
DescValid(g) == IsValidMetricName(g.name)

\* identity of a descriptor: fully-qualified name and constant label values
DescID(g) == <<g.name, g.account>>

Register_Replace(r, g) ==
    IF ~DescValid(g) THEN [reg |-> r, ok |-> FALSE]
    ELSE [reg |-> {h \in r : DescID(h) /= DescID(g)} \cup {g}, ok |-> TRUE]

\* reg.Register(gauge): rejected when the descriptor is invalid or its
\* identity is already registered
Register(r, g) ==
    IF ~DescValid(g) THEN [reg |-> r, ok |-> FALSE]
    ELSE IF \E h \in r : DescID(h) = DescID(g) THEN [reg |-> r, ok |-> FALSE]
    ELSE [reg |-> r \cup {g}, ok |-> TRUE]

HandleResult_NoContinue(r, acc, out) == Register(r, NewGauge(metricsName, acc, out.val))

\* body of the range loop after the query: skip on error, else build and register
HandleResult(r, acc, out) ==
    IF out.err THEN [reg |-> r, ok |-> FALSE]
    ELSE Register(r, NewGauge(metricsName, acc, out.val))

NewRegistry_Reused == reg

\* prometheus.NewRegistry()
NewRegistry == {}

NextIdx_Retry(k, out) == IF out.err THEN k ELSE k + 1

\* the range loop moves to the next account whatever the outcome
NextIdx(k, out) == k + 1

LoopPc_SkipEmpty(k, r) ==
    IF k <= Len(accounts) THEN "query"
    ELSE IF r = {} THEN "idle" ELSE "push"

\* the range loop: query account k, or fall through to the push
LoopPc(k, r) == IF k <= Len(accounts) THEN "query" ELSE "push"

PingPc_Ignored(ok) == "ticker"

\* db.Ping(): fatal on error
PingPc(ok) == IF ok THEN "ticker" ELSE "fatal"

PushPc_Fatal(failed) == IF failed THEN "fatal" ELSE "idle"

PushPc_Retry(failed) == IF failed THEN "push" ELSE "idle"

\* after Push() the error is logged and the for loop selects again
PushPc(failed) == "idle"

ChanCap == 1

RecvChan_Kept(c) == c

\* <-ticker.C takes the buffered tick
RecvChan(c) == c - 1

\* push.New(*pushgateway, *job).Grouping(...).Gatherer(reg).Push() returns nil
\* or an error (no request is made with an empty job name; the gateway may be
\* unreachable or refuse the batch)
PushOutcomes == BOOLEAN

-----------------------------------------------------------------------------
(* State machine *)

Init ==
    /\ pc = "parse"
    /\ accountStr \in AccountStrs
    /\ interval \in Intervals
    /\ metricsName \in MetricNames
    /\ dbErr = "none"
    /\ accounts = <<>>
    /\ idx = 0
    /\ reg = {}
    /\ opLog = <<>>
    /\ gateway = {}
    /\ chanLen = 0
    /\ elapsed = 0
    /\ dropped = 0
    /\ ticks = 0
    /\ pushes = 0

\* main.go:28-31
ParseAccounts ==
    /\ pc = "parse"
    /\ IF accountStr = <<>>
       THEN /\ pc' = "fatal"
            /\ UNCHANGED accounts
       ELSE /\ pc' = "open"
            /\ accounts' = Split(accountStr)
    /\ UNCHANGED <<accountStr, interval, metricsName, dbErr, idx, reg, opLog,
                   gateway, chanLen, elapsed, dropped, ticks, pushes>>

\* main.go:34-37
OpenDB ==
    /\ pc = "open"
    /\ \E ok \in BOOLEAN :
        /\ pc' = IF ok THEN "ping" ELSE "fatal"
        /\ dbErr' = IF ok THEN dbErr ELSE "open"
    /\ UNCHANGED <<accountStr, interval, metricsName, accounts, idx, reg, opLog,
                   gateway, chanLen, elapsed, dropped, ticks, pushes>>

\* main.go:41-43
PingDB ==
    /\ pc = "ping"
    /\ \E ok \in BOOLEAN :
        /\ pc' = PingPc(ok)
        /\ dbErr' = IF ok THEN dbErr ELSE "ping"
    /\ UNCHANGED <<accountStr, interval, metricsName, accounts, idx, reg, opLog,
                   gateway, chanLen, elapsed, dropped, ticks, pushes>>

\* main.go:46: time.NewTicker panics on a non-positive duration
NewTicker ==
    /\ pc = "ticker"
    /\ pc' = IF IsPos64(Duration(interval)) THEN "idle" ELSE "panic"
    /\ UNCHANGED <<accountStr, interval, metricsName, dbErr, accounts, idx, reg,
                   opLog, gateway, chanLen, elapsed, dropped, ticks, pushes>>

\* the runtime timer of the ticker: a non-blocking send on ticker.C
TimerFire ==
    /\ pc \in {"idle", "query", "push"}
    /\ elapsed < MaxElapsed
    /\ elapsed' = elapsed + 1
    /\ IF chanLen < ChanCap
       THEN chanLen' = chanLen + 1 /\ UNCHANGED dropped
       ELSE dropped' = dropped + 1 /\ UNCHANGED chanLen
    /\ UNCHANGED <<pc, accountStr, interval, metricsName, dbErr, accounts, idx,
                   reg, opLog, gateway, ticks, pushes>>

\* main.go:53-59: case <-ticker.C, a new registry, the range loop starts
RecvTick ==
    /\ pc = "idle"
    /\ chanLen > 0
    /\ chanLen' = RecvChan(chanLen)
    /\ ticks' = ticks + 1
    /\ reg' = NewRegistry
    /\ opLog' = <<>>
    /\ idx' = 1
    /\ pc' = LoopPc(1, reg')
    /\ UNCHANGED <<accountStr, interval, metricsName, dbErr, accounts, gateway,
                   elapsed, dropped, pushes>>

\* main.go:59-79 and 96-114: one iteration of the range loop
QueryAccount ==
    /\ pc = "query"
    /\ \E out \in QueryOutcomes :
        LET acc == accounts[idx]
            res == HandleResult(reg, acc, out)
        IN  /\ reg' = res.reg
            /\ opLog' = Append(opLog, [op |-> "query", account |-> acc, err |-> out.err,
                                       val |-> out.val, registered |-> res.ok])
            /\ idx' = NextIdx(idx, out)
            /\ pc' = LoopPc(idx', reg')
    /\ UNCHANGED <<accountStr, interval, metricsName, dbErr, accounts, gateway,
                   chanLen, elapsed, dropped, ticks, pushes>>

\* main.go:82-90
Push ==
    /\ pc = "push"
    /\ \E ok \in PushOutcomes :
        /\ opLog' = Append(opLog, [op |-> "push", batch |-> reg, err |-> ~ok])
        /\ gateway' = IF ok THEN reg ELSE gateway
        /\ pc' = PushPc(~ok)
    /\ pushes' = pushes + 1
    /\ UNCHANGED <<accountStr, interval, metricsName, dbErr, accounts, idx, reg,
                   chanLen, elapsed, dropped, ticks>>

Next ==
    \/ ParseAccounts
    \/ OpenDB
    \/ PingDB
    \/ NewTicker
    \/ TimerFire
    \/ RecvTick
    \/ QueryAccount
    \/ Push

Spec == Init /\ [][Next]_vars

\* the timer keeps firing, the goroutine is scheduled, and the blocking
\* query and push calls return
FairSpec ==
    /\ Spec
    /\ WF_vars(TimerFire)
    /\ WF_vars(RecvTick)
    /\ WF_vars(QueryAccount)
    /\ WF_vars(Push)

-----------------------------------------------------------------------------
(* Vocabulary of the properties *)

Names == {accounts[i] : i \in 1..Len(accounts)}

\* the queries the current tick has issued so far, in order
QLog == SelectSeq(opLog, LAMBDA r : r.op = "query")

GaugesOf(batch, n) == {g \in batch : g.account = n}

InLoop == pc \in {"idle", "query", "push"}

\* the current tick has issued every query and its push
TickComplete ==
    /\ pc = "idle"
    /\ ticks > 0
    /\ Len(opLog) = Len(accounts) + 1
    /\ opLog[Len(opLog)].op = "push"

\* the batch determined by the queries q of one tick alone: for every name the
\* value of its first successful query, when the gauge descriptor is valid
ExpectedBatch(q) ==
    {[name |-> metricsName, account |-> q[i].account, value |-> q[i].val] :
        i \in {k \in 1..Len(q) :
                  /\ ~q[k].err
                  /\ IsValidMetricName(metricsName)
                  /\ \A j \in 1..(k - 1) : q[j].account = q[k].account => q[j].err}}

-----------------------------------------------------------------------------
(* C1 *)

\* C1: every tick performs exactly one push attempt, whatever the outcomes of
\* its queries and registrations: while a tick is under way the pushes are one
\* behind the ticks, and whenever the loop is idle they are equal; a completed
\* tick's log holds exactly one push.
C1_OnePushPerTick ==
    /\ pc \in {"query", "push"} => pushes = ticks - 1
    /\ pc = "idle" => pushes = ticks
    /\ pc = "idle" /\ ticks > 0 =>
          Cardinality({i \in 1..Len(opLog) : opLog[i].op = "push"}) = 1

\* a tick whose queries all failed has pushed the empty collection
C1_Witness ==
    /\ pc = "idle"
    /\ ticks >= 2
    /\ pushes = ticks
    /\ Len(opLog) = Len(accounts) + 1
    /\ \A i \in 1..Len(accounts) : opLog[i].err
    /\ opLog[Len(opLog)].op = "push"
    /\ opLog[Len(opLog)].batch = {}

-----------------------------------------------------------------------------
(* C2 *)

\* C2 as stated: at the push the batch holds at most one sample per configured
\* name, a sample only for a name with a successful query in this tick, and no
\* sample for a name one of whose queries in this tick returned an error.
C2_Original ==
    pc = "push" =>
        /\ \A g \in reg : g.account \in Names
        /\ \A n \in Names :
            /\ Cardinality(GaugesOf(reg, n)) <= 1
            /\ GaugesOf(reg, n) /= {} =>
                  \E i \in 1..Len(QLog) : QLog[i].account = n /\ ~QLog[i].err
            /\ (\E i \in 1..Len(QLog) : QLog[i].account = n /\ QLog[i].err) =>
                  GaugesOf(reg, n) = {}

\* C2 amended: at the push the batch holds at most one sample per configured
\* name and a sample only for a name with a successful query in this tick; a
\* list entry whose query failed registers nothing, and a name all of whose
\* queries in this tick failed has no sample.
C2_BatchOnlySuccessful ==
    pc = "push" =>
        /\ \A g \in reg : g.account \in Names
        /\ \A i \in 1..Len(QLog) : QLog[i].err => ~QLog[i].registered
        /\ \A n \in Names :
            /\ Cardinality(GaugesOf(reg, n)) <= 1
            /\ GaugesOf(reg, n) /= {} =>
                  \E i \in 1..Len(QLog) : QLog[i].account = n /\ ~QLog[i].err
            /\ (\A i \in 1..Len(QLog) : QLog[i].account = n => QLog[i].err) =>
                  GaugesOf(reg, n) = {}

\* one name failed every query and has no sample, another name has one
C2_Witness ==
    /\ pc = "push"
    /\ \E n \in Names, m \in Names :
        /\ n /= m
        /\ \A i \in 1..Len(QLog) : QLog[i].account = n => QLog[i].err
        /\ GaugesOf(reg, n) = {}
        /\ GaugesOf(reg, m) /= {}

-----------------------------------------------------------------------------
(* C3 *)

\* C3 as stated: for every entry of the account list, repeated names
\* included, a query that returned v leaves a gauge for that name with value
\* exactly v in the batch at the push (stated here for valid metric names
\* only, where it already fails).
C3_Original ==
    pc = "push" /\ IsValidMetricName(metricsName) =>
        \A i \in 1..Len(QLog) :
            ~QLog[i].err =>
                \E g \in reg : g.account = QLog[i].account /\ g.value = QLog[i].val

\* C3 amended: a query that returned v and whose gauge was registered leaves
\* exactly one gauge for that name in the batch at the push, and its value is
\* v; the registration succeeds exactly when the metric name is valid and no
\* earlier entry of the same name had a successful query in this tick.
C3_RegisteredValueExact ==
    pc = "push" =>
        \A i \in 1..Len(QLog) :
            /\ QLog[i].registered <=>
                  /\ ~QLog[i].err
                  /\ IsValidMetricName(metricsName)
                  /\ \A j \in 1..(i - 1) :
                        QLog[j].account = QLog[i].account => QLog[j].err
            /\ QLog[i].registered =>
                  GaugesOf(reg, QLog[i].account) =
                      {[name |-> metricsName, account |-> QLog[i].account,
                        value |-> QLog[i].val]}

\* a registered gauge with a non-zero reward is in the batch
C3_Witness ==
    /\ pc = "push"
    /\ \E i \in 1..Len(QLog) :
        /\ QLog[i].registered
        /\ QLog[i].val = 1
        /\ \E g \in reg : g.account = QLog[i].account /\ g.value = 1

-----------------------------------------------------------------------------
(* C4 *)

\* C4: with an empty account parameter or a failed ping the process ends
\* fatally before the timer loop: it never leaves the startup path for the
\* loop, issues no query and attempts no push.
C4_FatalStartup ==
    /\ accountStr = <<>> => pc \in {"parse", "fatal"}
    /\ dbErr = "ping" => pc = "fatal"
    /\ pc = "fatal" =>
          /\ accountStr = <<>> \/ dbErr /= "none"
          /\ opLog = <<>>
          /\ ticks = 0
          /\ pushes = 0
          /\ elapsed = 0

\* the ping failed and the process is dead
C4_Witness ==
    /\ pc = "fatal"
    /\ dbErr = "ping"
    /\ accountStr /= <<>>

-----------------------------------------------------------------------------
(* C5 *)

\* C5 as stated: the process ends on its own only with an empty account list
\* or an unreachable database at startup, whatever the interval.
C5_Original ==
    pc \in {"fatal", "panic"} => accountStr = <<>> \/ dbErr /= "none"

\* C5 amended: the process ends on its own only with an empty account list,
\* an unreachable database at startup, or an interval whose duration in
\* nanoseconds, computed in 64 bits, is not positive (NewTicker panics); with
\* any other configuration it enters the timer loop and never leaves it.
C5_OnlyStartupExits ==
    /\ [](pc \in {"fatal", "panic"} =>
            \/ accountStr = <<>>
            \/ dbErr /= "none"
            \/ ~IsPos64(Duration(interval)))
    /\ [][pc = "ticker" /\ IsPos64(Duration(interval)) => pc' = "idle"]_vars
    /\ [][InLoop => InLoop']_vars

\* the loop is still running after two ticks, the last push having failed,
\* with an interval whose duration wrapped around to a positive value
C5_Witness ==
    /\ pc = "idle"
    /\ ticks >= 2
    /\ TickComplete
    /\ opLog[Len(opLog)].err
    /\ interval = <<10, 250, 130, 75, 4, 0, 0, 0>>

-----------------------------------------------------------------------------
(* C6 *)

TickFailed ==
    /\ TickComplete
    /\ \E i \in 1..Len(opLog) : opLog[i].err

CanTick == chanLen > 0 \/ elapsed < MaxElapsed

AllQueried == pc = "push" /\ Len(opLog) = Len(accounts)

\* C6: a push attempt, failed or not, takes the loop from Publishing back to
\* Idle; under a fair timer a tick with a failed push or failed queries is
\* followed by another tick that queries every account and pushes.
C6_BackToIdle ==
    /\ [][pushes' /= pushes => pc = "push" /\ pc' = "idle"]_vars
    /\ (TickFailed /\ CanTick) ~> AllQueried
    /\ AllQueried ~> TickComplete

\* a second tick has completed although the push failed
C6_Witness ==
    /\ TickFailed
    /\ ticks >= 2
    /\ opLog[Len(opLog)].err
    /\ \E i \in 1..Len(accounts) : opLog[i].err

-----------------------------------------------------------------------------
(* C7 *)

-----------------------------------------------------------------------------
(* C8 *)

-----------------------------------------------------------------------------
(* C9 *)

DupPairs ==
    {p \in (1..Len(QLog)) \X (1..Len(QLog)) :
        /\ p[1] < p[2]
        /\ QLog[p[1]].account = QLog[p[2]].account
        /\ ~QLog[p[1]].err
        /\ ~QLog[p[2]].err}

FirstOk(n) ==
    CHOOSE i \in 1..Len(QLog) :
        /\ QLog[i].account = n
        /\ ~QLog[i].err
        /\ \A j \in 1..(i - 1) : QLog[j].account = n => QLog[j].err

DupHandled(batch) ==
    \A p \in DupPairs :
        /\ ~QLog[p[2]].registered
        /\ GaugesOf(batch, QLog[p[1]].account) =
              {[name |-> metricsName, account |-> QLog[p[1]].account,
                value |-> QLog[FirstOk(QLog[p[1]].account)].val]}

\* C9 as stated: when a name occurs twice and both queries succeed, the later
\* registration is dropped, the batch holds exactly one gauge for the name
\* (the one registered first), every account is still queried and the push
\* takes place.
C9_Original ==
    /\ pc = "push" => Len(QLog) = Len(accounts) /\ DupHandled(reg)
    /\ pc = "idle" /\ ticks > 0 =>
          TickComplete /\ DupHandled(opLog[Len(opLog)].batch)

\* C9 amended: the same, provided the metric name is valid; with an invalid
\* metric name (the default empty name) every registration fails and the
\* batch holds no gauge for the name.
C9_DuplicateDropped ==
    /\ pc = "push" =>
          /\ Len(QLog) = Len(accounts)
          /\ IsValidMetricName(metricsName) => DupHandled(reg)
          /\ ~IsValidMetricName(metricsName) => reg = {}
    /\ pc = "idle" /\ ticks > 0 =>
          /\ TickComplete
          /\ IsValidMetricName(metricsName) => DupHandled(opLog[Len(opLog)].batch)

\* a name queried twice with different rewards, a further account after it,
\* and a push of two gauges
C9_Witness ==
    /\ TickComplete
    /\ IsValidMetricName(metricsName)
    /\ \E p \in DupPairs :
        /\ QLog[p[1]].val /= QLog[p[2]].val
        /\ \E k \in 1..Len(QLog) :
            /\ k > p[2]
            /\ QLog[k].account /= QLog[p[1]].account
            /\ QLog[k].registered
    /\ Cardinality(opLog[Len(opLog)].batch) = 2

-----------------------------------------------------------------------------
(* C10 *)

\* the log of a tick is a prefix of: one query per list entry in list order,
\* then the push
LogInOrder ==
    /\ Len(opLog) <= Len(accounts) + 1
    /\ \A i \in 1..Len(opLog) :
        IF i <= Len(accounts)
        THEN opLog[i].op = "query" /\ opLog[i].account = accounts[i]
        ELSE opLog[i].op = "push"

\* C10: in every tick each list entry is queried exactly once, in list order,
\* without retry; the push follows the last query; the next tick issues no
\* query before the push has completed; and the list is the same in every
\* tick.
C10_SerialOrder ==
    /\ [](InLoop =>
            /\ accounts = Split(accountStr)
            /\ LogInOrder
            /\ pc = "query" => Len(opLog) = idx - 1 /\ idx <= Len(accounts)
            /\ pc = "push" => Len(opLog) = Len(accounts)
            /\ pc = "idle" /\ ticks > 0 => Len(opLog) = Len(accounts) + 1)
    /\ [][ticks' /= ticks =>
            /\ ticks > 0 => TickComplete
            /\ opLog' = <<>>]_vars
    /\ [][InLoop => accounts' = accounts]_vars

\* a second tick has queried a list of several entries to the end although a
\* query failed
C10_Witness ==
    /\ TickComplete
    /\ ticks >= 2
    /\ Len(accounts) >= 3
    /\ opLog[1].err
    /\ ~opLog[2].err

=============================================================================
